---- MODULE Spec2Model ----
(***************************************************************************)
(* Model of the ECtHR citation-network engine.                             *)
(*                                                                         *)
(*   SpecBuild   : CitationNetwork.dataframe_to_network                    *)
(*                 (src/src/network_builder.py, src/src/utils.py)          *)
(*   SpecCombine : NetworkCombiner (src/src/network_combiner.py)           *)
(*                                                                         *)
(* A node identifier "<appno>:<year>" is the record [app, yr]; yr is the   *)
(* four-character suffix of the identifier (a year or the text "None").    *)
(* A graph is kept as networkx keeps it: the nodes in insertion order, an  *)
(* attribute mapping per node and an attribute mapping per ordered pair.   *)
(***************************************************************************)
EXTENDS Integers, Sequences, FiniteSets, TLC

\* ------------------------------------------------------------------ bounds
MaxRows == 2
MaxIds  == 2
MaxRefs == 2

Apps  == {"100/01", "200/02"}
Years == {"2015", "2016"}

\* ------------------------------------------------------- strings and years
NoneStr == "None"

\* int(s) of a four-digit year token
IntOf(y) == CASE y = "2015" -> 2015
              [] y = "2016" -> 2016

YearSuffix(n) == n.yr      \* n[-4:]
AppPrefix(n)  == n.app     \* n[:-5]; n[:-4] is the same text plus ":"

NodeId(a, y) == [app |-> a, yr |-> y]

\* strings as sequences of characters
Digits == {"0", "1", "2", "3", "4", "5", "6", "7", "8", "9"}

\* the characters of a unit
Chars(u) == CASE u = "100/01" -> <<"1", "0", "0", "/", "0", "1">>
              [] u = "200/02" -> <<"2", "0", "0", "/", "0", "2">>
              [] u = " "      -> <<" ">>
              [] u = "1950"   -> <<"1", "9", "5", "0">>
              [] u = "2015"   -> <<"2", "0", "1", "5">>
              [] u = "2016"   -> <<"2", "0", "1", "6">>
              [] u = "100/012" -> <<"1", "0", "0", "/", "0", "1", "2">>
              [] u = "12/34"  -> <<"1", "2", "/", "3", "4">>

\* characters are counted from 0, as Python counts them
At(s, p) == s[p + 1]

\* str(None), character by character
NoneChars == <<"N", "o", "n", "e">>


\* default of the citation_year parameter
DefaultCitationYear == 3000

\* ------------------------------------------------------------ graph basics
SeqToSet(s) == {s[x] : x \in 1..Len(s)}

HasNode(ns, n) == n \in SeqToSet(ns)

\* G.add_node(n, **d): a new node is appended, an existing one has its
\* attributes updated
AddNodeOrder(ns, n) == IF HasNode(ns, n) THEN ns ELSE Append(ns, n)
AddNodeAttrs(at, n, d) ==
    IF n \in DOMAIN at THEN [at EXCEPT ![n] = d @@ at[n]] ELSE (n :> d) @@ at

\* G.add_edge(s, t, **d)
AddEdge(es, s, t, d) ==
    IF <<s, t>> \in DOMAIN es THEN [es EXCEPT ![<<s, t>>] = d @@ es[<<s, t>>]]
    ELSE (<<s, t>> :> d) @@ es

Restrict(f, S) == [x \in S |-> f[x]]

InEdges(es, n)  == {e \in DOMAIN es : e[2] = n}
OutEdges(es, n) == {e \in DOMAIN es : e[1] = n}

\* nx.is_directed_acyclic_graph on the edge set E
RECURSIVE Acyclic(_, _)
Acyclic(N, E) ==
    IF N = {} THEN TRUE
    ELSE LET sinks == {n \in N : ~ \E e \in E : e[1] = n /\ e[2] \in N}
         IN  IF sinks = {} THEN FALSE ELSE Acyclic(N \ sinks, E)

\* a plausible slip: an acyclicity test that overlooks self-loops
IsDAG_ignoring_self_loops(es) ==
    Acyclic({e[1] : e \in DOMAIN es} \cup {e[2] : e \in DOMAIN es},
            {e \in DOMAIN es : e[1] # e[2]})

IsDAG(es) == Acyclic({e[1] : e \in DOMAIN es} \cup {e[2] : e \in DOMAIN es}, DOMAIN es)

EmptyFn == [x \in {} |-> x]

\* ====================================================================
\*  Builder: CitationNetwork.dataframe_to_network
\* ====================================================================
VARIABLES
    pc,                  \* position in dataframe_to_network / do_concatenation
    df,                  \* the rows read so far: [ids, yr] (AppNo_Year)
    nodes, attrs, edges, \* self.G
    i, k,                \* row and reference position of the citation loop
    nodes_without_year, nodes_with_year, j, num_of_matches,
    last_merge,          \* node1, node2 and new_edges of the latest merge

    \* NetworkCombiner
    cpc,                 \* position in the combiner
    graph_judgments, graph_decisions,   \* the two source graphs
    graph,               \* the combined graph
    tally,               \* the outcome counters of the node merge
    as_loaded,           \* history: the two source graphs as they were loaded,
                         \* and the method the run entered

    \* history of the citation loop: the latest reference and what became of it
    last_ref,

    \* save_graph_to_json / load_graph_from_json
    file,                \* the node-link document written to disk
    loaded,              \* the graph load_graph_from_json returned

    \* a call of one of the pure utilities: its arguments and its result
    fcall, fret

bvars == <<pc, df, nodes, attrs, edges, i, k,
           nodes_without_year, nodes_with_year, j, num_of_matches, last_merge, last_ref>>
cvars == <<cpc, graph_judgments, graph_decisions, graph, tally, as_loaded>>
xvars == <<file, loaded, fcall, fret>>
vars  == <<bvars, cvars, xvars>>

CaseAttrs == [label |-> "Case"]
DupAttrs  == [label |-> "Duplicate"]

Label(at, n) == at[n].label

\* the identifier sequences a record can carry: 1..MaxIds application numbers
RECURSIVE SeqsUpTo(_, _)
SeqsUpTo(S, n) ==
    IF n = 0 THEN {<<>>}
    ELSE LET shorter == SeqsUpTo(S, n - 1)
         IN  shorter \cup {Append(q, x) : q \in {r \in shorter : Len(r) = n - 1}, x \in S}

IdSeqs == SeqsUpTo(Apps, MaxIds) \ {<<>>}

\* concat_appno_year: "<n>:<date[:4]>" for every application number
concat_appno_year(row) == [x \in 1..Len(row.ids) |-> NodeId(row.ids[x], row.yr)]

\* a plausible slip: the known year must lie strictly before the citation year
matching_nodes_names_strict(node1, node2, citation_year) ==
    IF node1 = node2 THEN 2
    ELSE IF AppPrefix(node1) = AppPrefix(node2)
            /\ NoneStr \in {YearSuffix(node1), YearSuffix(node2)}
         THEN LET year == IF YearSuffix(node1) = NoneStr THEN YearSuffix(node2)
                          ELSE YearSuffix(node1)
              IN  IF citation_year > IntOf(year) THEN 1 ELSE 0
         ELSE 0

\* matching_nodes_names(node1, node2, citation_year)
matching_nodes_names(node1, node2, citation_year) ==
    IF node1 = node2 THEN 2
    ELSE IF AppPrefix(node1) = AppPrefix(node2)
            /\ NoneStr \in {YearSuffix(node1), YearSuffix(node2)}
         THEN LET year == IF YearSuffix(node1) = NoneStr THEN YearSuffix(node2)
                          ELSE YearSuffix(node1)
              IN  IF citation_year >= IntOf(year) THEN 1 ELSE 0
         ELSE 0

\* CitationNetwork.match_nodes_names: the static method evaluates
\* matching_nodes_names and has no return statement, so its caller sees None,
\* which tests false
match_nodes_names(node1, node2) == FALSE

\* a plausible slip: the reference is used as it stands, Duplicate or not
find_unique_id_unresolved(at, es, n) == n

\* find_unique_id: the assertion and the returned identifier
find_unique_id_ok(at, es, n) ==
    Label(at, n) = "Duplicate" => Cardinality(OutEdges(es, n)) = 1
find_unique_id(at, es, n) ==
    IF Label(at, n) = "Duplicate"
    THEN (CHOOSE e \in OutEdges(es, n) : TRUE)[2]
    ELSE n

\* a plausible slip: the in-edge test compares whole identifiers
is_it_a_self_loop_exact(es, source, target) ==
    \/ match_nodes_names(source, target)
    \/ \E e \in InEdges(es, source) : e[1] = target
    \/ <<source, target>> \in OutEdges(es, source)

\* is_it_a_self_loop(source, target)
is_it_a_self_loop(es, source, target) ==
    \/ match_nodes_names(source, target)
    \/ \E e \in InEdges(es, source) : AppPrefix(e[1]) = AppPrefix(target)
    \/ <<source, target>> \in OutEdges(es, source)

\* a plausible slip: the test int(m) <= int(citation_year) left out
find_year_in_text_range_unfiltered(citation_year) == Years \cup {NoneStr}

\* the years find_year_in_text can return for a citing year: a token of the
\* text that is <= the citing year, or "None"
find_year_in_text_range(citation_year) ==
    {y \in Years : IntOf(y) <= IntOf(citation_year)} \cup {NoneStr}

CombinerIdle ==
    /\ cpc = "idle"
    /\ graph_judgments = EmptyFn
    /\ graph_decisions = EmptyFn
    /\ graph = EmptyFn
    /\ tally = EmptyFn
    /\ as_loaded = EmptyFn

\* nothing has been saved or loaded, no utility has been called
NothingSaved ==
    /\ file = EmptyFn
    /\ loaded = EmptyFn
NoUtilityCall ==
    /\ fcall = EmptyFn
    /\ fret = EmptyFn

BuildInit ==
    /\ CombinerIdle
    /\ NothingSaved
    /\ NoUtilityCall
    /\ last_ref = EmptyFn
    /\ pc = "nodes"
    /\ df = <<>>
    /\ nodes = <<>>
    /\ attrs = EmptyFn
    /\ edges = EmptyFn
    /\ i = 1
    /\ k = 0
    /\ nodes_without_year = <<>>
    /\ nodes_with_year = <<>>
    /\ j = 1
    /\ num_of_matches = 0
    /\ last_merge = EmptyFn

\* a plausible slip: the test "node not in self.G.nodes()" left out
RECURSIVE AddDuplicates_unguarded(_, _, _, _)
AddDuplicates_unguarded(g, ids, first, x) ==
    IF x > Len(ids) THEN g
    ELSE AddDuplicates_unguarded(
            [nodes |-> AddNodeOrder(g.nodes, ids[x]),
             attrs |-> AddNodeAttrs(g.attrs, ids[x], DupAttrs),
             edges |-> AddEdge(g.edges, ids[x], first, [label |-> "DUPLICATE_TO_CASE"])],
            ids, first, x + 1)

\* add_nodes_of_network, one record: the first identifier becomes a Case
\* node, every further identifier that is not yet a node a Duplicate node
RECURSIVE AddDuplicates(_, _, _, _)
AddDuplicates(g, ids, first, x) ==
    IF x > Len(ids) THEN g
    ELSE IF HasNode(g.nodes, ids[x]) THEN AddDuplicates(g, ids, first, x + 1)
    ELSE AddDuplicates(
            [nodes |-> Append(g.nodes, ids[x]),
             attrs |-> AddNodeAttrs(g.attrs, ids[x], DupAttrs),
             edges |-> AddEdge(g.edges, ids[x], first, [label |-> "DUPLICATE_TO_CASE"])],
            ids, first, x + 1)

\* a plausible slip: an identifier that is already a node keeps its label
add_nodes_of_network_keep_label(g, ids) ==
    AddDuplicates([nodes |-> AddNodeOrder(g.nodes, ids[1]),
                   attrs |-> IF ids[1] \in DOMAIN g.attrs THEN g.attrs
                             ELSE AddNodeAttrs(g.attrs, ids[1], CaseAttrs),
                   edges |-> g.edges],
                  ids, ids[1], 2)

add_nodes_of_network(g, ids) ==
    AddDuplicates([nodes |-> AddNodeOrder(g.nodes, ids[1]),
                   attrs |-> AddNodeAttrs(g.attrs, ids[1], CaseAttrs),
                   edges |-> g.edges],
                  ids, ids[1], 2)

AddNodesRow ==
    /\ pc = "nodes"
    /\ Len(df) < MaxRows
    /\ \E ids \in IdSeqs, y \in Years :
         LET row == [ids |-> ids, yr |-> y]
             g   == add_nodes_of_network(
                       [nodes |-> nodes, attrs |-> attrs, edges |-> edges],
                       concat_appno_year(row))
         IN  /\ row \notin SeqToSet(df)       \* df.duplicated rows are dropped
             /\ df' = Append(df, row)
             /\ nodes' = g.nodes
             /\ attrs' = g.attrs
             /\ edges' = g.edges
    /\ UNCHANGED <<pc, i, k, nodes_without_year, nodes_with_year, j, num_of_matches, last_merge, last_ref, cvars, xvars>>

EndNodes ==
    /\ pc = "nodes"
    /\ pc' = "cites"
    /\ i' = 1
    /\ k' = 0
    /\ UNCHANGED <<df, nodes, attrs, edges,
                   nodes_without_year, nodes_with_year, j, num_of_matches, last_merge, last_ref, cvars, xvars>>

Source(row) == concat_appno_year(row)[1]

\* reference strings that are no application number: a third digit after the
\* slash, and two digits only before it
MalformedApps == {"100/012", "12/34"}

\* the references a record can carry once concat_appno_year_with_search has
\* appended a year: find_year_in_text finds no year for a malformed one
References(citation_year) ==
    {NodeId(a, y) : a \in Apps, y \in find_year_in_text_range(citation_year)}
        \cup {NodeId(a, NoneStr) : a \in MalformedApps}

\* a plausible slip: the pattern test left out, every reference is accepted
appno_pattern_found_always(ref_year) == TRUE

\* len(re.findall(r"\d*(\d\d\d/\d\d)", ref_year)) > 0: somewhere in the
\* string three digits, a slash and two digits follow one another
appno_pattern_found(ref_year) ==
    LET s == Chars(AppPrefix(ref_year)) \o <<":">>
                \o (IF YearSuffix(ref_year) = NoneStr
                    THEN NoneChars ELSE Chars(YearSuffix(ref_year)))
    IN  \E p \in 0..(Len(s) - 6) :
            /\ \A x \in {0, 1, 2, 4, 5} : At(s, p + x) \in Digits
            /\ At(s, p + 3) = "/"

\* add_citations_to_network, one reference of record i
AddCitation ==
    /\ pc = "cites"
    /\ i <= Len(df)
    /\ k < MaxRefs
    /\ LET source        == Source(df[i])
           citation_year == YearSuffix(source)
       IN  \E ref_year \in References(citation_year) :
             IF ~ appno_pattern_found(ref_year)
             THEN /\ UNCHANGED <<pc, nodes, attrs, edges>>
                  /\ last_ref' = [source |-> source, ref_year |-> ref_year,
                                  target |-> ref_year, added |-> FALSE,
                                  matched |-> FALSE]
             ELSE
             LET ns == AddNodeOrder(nodes, ref_year)
                 at == IF HasNode(nodes, ref_year) THEN attrs
                       ELSE AddNodeAttrs(attrs, ref_year, CaseAttrs)
             IN  /\ nodes' = ns
                 /\ attrs' = at
                 /\ IF ~ find_unique_id_ok(at, edges, ref_year)
                    THEN /\ pc' = "abort"
                         /\ edges' = edges
                         /\ last_ref' = [source |-> source, ref_year |-> ref_year,
                                         target |-> ref_year, added |-> FALSE,
                                         matched |-> TRUE]
                    ELSE LET target == find_unique_id(at, edges, ref_year)
                             skip   == is_it_a_self_loop(edges, source, target)
                         IN  /\ pc' = pc
                             /\ edges' =
                                  IF skip
                                  THEN edges
                                  ELSE AddEdge(edges, source, target,
                                               [label |-> "CASE_TO_CASE",
                                                citedAt |-> citation_year])
                             /\ last_ref' = [source |-> source, ref_year |-> ref_year,
                                             target |-> target, added |-> ~ skip,
                                             matched |-> TRUE]
    /\ k' = k + 1
    /\ UNCHANGED <<df, i, nodes_without_year, nodes_with_year, j, num_of_matches, last_merge, cvars, xvars>>

NextRecord ==
    /\ pc = "cites"
    /\ i <= Len(df)
    /\ i' = i + 1
    /\ k' = 0
    /\ last_ref' = EmptyFn
    /\ UNCHANGED <<pc, df, nodes, attrs, edges,
                   nodes_without_year, nodes_with_year, j, num_of_matches, last_merge, cvars, xvars>>

EndCitations ==
    /\ pc = "cites"
    /\ i > Len(df)
    /\ pc' = "rm1"
    /\ UNCHANGED <<df, nodes, attrs, edges, i, k,
                   nodes_without_year, nodes_with_year, j, num_of_matches, last_merge, last_ref, cvars, xvars>>

\* -------------------------------------------------- duplicate-citation removal
\* get_citations_to_duplicates
get_citations_to_duplicates(at, es) ==
    {e \in DOMAIN es : Label(at, e[2]) = "Duplicate"}

\* duplicates_receive_citations: FALSE, or a Duplicate node with an in-edge
duplicates_receive_citations(at, es) ==
    \E n \in DOMAIN at : Label(at, n) = "Duplicate" /\ InEdges(es, n) # {}

\* the two assertions inside the loop of remove_dictations_to_duplicates
remove_dictations_ok(at, es) ==
    \A e \in get_citations_to_duplicates(at, es) :
        /\ find_unique_id_ok(at, es, e[2])
        /\ Label(at, find_unique_id(at, es, e[2])) = "Case"

\* remove_dictations_to_duplicates without line 284: the offending edges are
\* deleted and nothing is added in their place
remove_dictations_to_duplicates_no_redirect(at, es) ==
    Restrict(es, DOMAIN es \ get_citations_to_duplicates(at, es))

\* remove_dictations_to_duplicates with line 281 appending (target, dup)
\* instead of (s, target)
remove_dictations_to_duplicates_to_dup(at, es) ==
    LET edges_to_remove == get_citations_to_duplicates(at, es)
        edges_to_add ==
            {<<find_unique_id(at, es, e[2]), e[2]>> : e \in edges_to_remove}
                \ DOMAIN es
        kept == Restrict(es, DOMAIN es \ edges_to_remove)
    IN  [e \in DOMAIN kept \cup edges_to_add |->
            IF e \in edges_to_add
            THEN IF e \in DOMAIN kept
                 THEN [label |-> "CASE_TO_CASE"] @@ kept[e]
                 ELSE [label |-> "CASE_TO_CASE"]
            ELSE kept[e]]

\* remove_dictations_to_duplicates: the edge mapping it leaves
remove_dictations_to_duplicates(at, es) ==
    LET edges_to_remove == get_citations_to_duplicates(at, es)
        edges_to_add ==
            {<<e[1], find_unique_id(at, es, e[2])>> : e \in edges_to_remove}
                \ DOMAIN es
        kept == Restrict(es, DOMAIN es \ edges_to_remove)
    IN  [e \in DOMAIN kept \cup edges_to_add |->
            IF e \in edges_to_add
            THEN IF e \in DOMAIN kept
                 THEN [label |-> "CASE_TO_CASE"] @@ kept[e]
                 ELSE [label |-> "CASE_TO_CASE"]
            ELSE kept[e]]

RemoveDictations ==
    /\ pc \in {"rm1", "rm2"}
    /\ IF remove_dictations_ok(attrs, edges)
       THEN /\ edges' = remove_dictations_to_duplicates(attrs, edges)
            /\ pc' = IF pc = "rm1" THEN "chk1" ELSE "chk2"
       ELSE /\ edges' = edges
            /\ pc' = "abort"
    /\ UNCHANGED <<df, nodes, attrs, i, k,
                   nodes_without_year, nodes_with_year, j, num_of_matches, last_merge, last_ref, cvars, xvars>>

\* dataframe_to_network lines 331-338: no Duplicate is cited, the graph is a DAG
Checkpoint1 ==
    /\ pc = "chk1"
    /\ pc' = IF ~ duplicates_receive_citations(attrs, edges) /\ IsDAG(edges)
             THEN "merge_start" ELSE "abort"
    /\ UNCHANGED <<df, nodes, attrs, edges, i, k,
                   nodes_without_year, nodes_with_year, j, num_of_matches, last_merge, last_ref, cvars, xvars>>

\* ------------------------------------------------------------ year-based merge
\* a plausible slip: the test n[-4:] == 'None' inverted
is_year_unknown_inverted(n) == YearSuffix(n) # NoneStr

\* n[-4:] == 'None', the test that splits the nodes in lines 351-352
is_year_unknown(n) == YearSuffix(n) = NoneStr

\* merge_cases_with_matching_years, lines 351-353
MergeStart ==
    /\ pc = "merge_start"
    /\ nodes_without_year' = SelectSeq(nodes, LAMBDA n : is_year_unknown(n))
    /\ nodes_with_year' = SelectSeq(nodes, LAMBDA n : ~ is_year_unknown(n))
    /\ num_of_matches' = 0
    /\ j' = 1
    /\ pc' = "merge"
    /\ UNCHANGED <<df, nodes, attrs, edges, i, k, last_merge, last_ref, cvars, xvars>>

SetMin(S) == CHOOSE x \in S : \A y \in S : x <= y

\* every in-edge of node1 must carry citedAt (data['citedAt'])
citation_years_ok(es, node1) ==
    \A e \in InEdges(es, node1) : "citedAt" \in DOMAIN es[e]

\* a plausible slip: the latest citing year instead of the earliest
citation_year_of_latest(es, node1) ==
    LET citation_years == {IntOf(es[e].citedAt) : e \in InEdges(es, node1)}
    IN  IF citation_years = {} THEN DefaultCitationYear
        ELSE CHOOSE x \in citation_years : \A y \in citation_years : x >= y

\* the effective citation year of node1
citation_year_of(es, node1) ==
    LET citation_years == {IntOf(es[e].citedAt) : e \in InEdges(es, node1)}
    IN  IF citation_years = {} THEN DefaultCitationYear ELSE SetMin(citation_years)

\* positions of nodes_with_year that match node1
MatchPositions(withy, node1, citation_year) ==
    {m \in 1..Len(withy) : matching_nodes_names(node1, withy[m], citation_year) # 0}

\* a plausible slip: dict1.update(dict2), the keys of dict2 win
concatenate_dict_overwrite(dict1, dict2) == dict2 @@ dict1

\* concatenate_dict(dict1, dict2): keys of dict1 win
concatenate_dict(dict1, dict2) == dict1 @@ dict2

\* a plausible slip: the in-edge filter w != u left out
redirect_edges_unfiltered(es, v, u) ==
    LET in_edges  == {e \in InEdges(es, v) : e[1] # v}
        out_edges == {e \in OutEdges(es, v) : e[2] # u}
    IN  [p \in {<<e[1], u>> : e \in in_edges} \cup {<<u, e[2]>> : e \in out_edges} |->
            IF p[2] = u THEN es[<<p[1], v>>] ELSE es[<<v, p[2]>>]]

\* redirect_edges(G, v, u): the edges to add, as (source, target) |-> data.
\* The generators are consumed after G.remove_node(v), which has by then
\* dropped the entry (v, v) from v's predecessor mapping.
redirect_edges(es, v, u) ==
    LET in_edges  == {e \in InEdges(es, v) : e[1] # u /\ e[1] # v}
        out_edges == {e \in OutEdges(es, v) : e[2] # u}
    IN  [p \in {<<e[1], u>> : e \in in_edges} \cup {<<u, e[2]>> : e \in out_edges} |->
            IF p[2] = u THEN es[<<p[1], v>>] ELSE es[<<v, p[2]>>]]

\* G.remove_node(v)
RemoveNodeOrder(ns, v) == SelectSeq(ns, LAMBDA n : n # v)
RemoveNodeEdges(es, v) == Restrict(es, {e \in DOMAIN es : e[1] # v /\ e[2] # v})

\* G.add_edges_from(new_edges): data of an existing edge is updated
add_edges_from(es, new_edges) ==
    [e \in DOMAIN es \cup DOMAIN new_edges |->
        IF e \in DOMAIN new_edges
        THEN IF e \in DOMAIN es THEN new_edges[e] @@ es[e] ELSE new_edges[e]
        ELSE es[e]]

\* lines 364-373 without G.remove_node(node1): the year-unknown node stays
merge_node_kept(ns, at, es, node1, node2) ==
    [nodes |-> ns,
     attrs |-> [at EXCEPT ![node2] = concatenate_dict(at[node2], at[node1])],
     edges |-> add_edges_from(es, redirect_edges(es, node1, node2))]

\* lines 364-373: node1 is merged into node2; the graph that results
merge_node(ns, at, es, node1, node2) ==
    LET new_edges == redirect_edges(es, node1, node2)
        es1       == add_edges_from(RemoveNodeEdges(es, node1), new_edges)
        ends      == {e[1] : e \in DOMAIN new_edges}
                        \cup {e[2] : e \in DOMAIN new_edges}
        readd     == node1 \in ends   \* add_edges_from re-creates it
    IN  [nodes |-> IF readd
                   THEN Append(RemoveNodeOrder(ns, node1), node1)
                   ELSE RemoveNodeOrder(ns, node1),
         attrs |-> [n \in (DOMAIN at \ {node1})
                          \cup (IF readd THEN {node1} ELSE {}) |->
                      IF n = node2
                      THEN concatenate_dict(at[node2], at[node1])
                      ELSE IF n = node1 THEN EmptyFn ELSE at[n]],
         edges |-> es1]

\* one iteration of the outer loop, lines 355-375
MergeStep ==
    /\ pc = "merge"
    /\ j <= Len(nodes_without_year)
    /\ LET node1 == nodes_without_year[j]
       IN  IF ~ citation_years_ok(edges, node1)
           THEN /\ pc' = "abort"
                /\ UNCHANGED <<nodes, attrs, edges, num_of_matches, last_merge>>
           ELSE LET cy  == citation_year_of(edges, node1)
                    pos == MatchPositions(nodes_with_year, node1, cy)
                IN  IF pos = {}
                    THEN UNCHANGED <<pc, nodes, attrs, edges, num_of_matches, last_merge>>
                    ELSE LET node2  == nodes_with_year[SetMin(pos)]
                             merged == merge_node(nodes, attrs, edges, node1, node2)
                         IN  /\ nodes' = merged.nodes
                             /\ attrs' = merged.attrs
                             /\ edges' = merged.edges
                             /\ num_of_matches' = num_of_matches + 1
                             /\ last_merge' = [node1 |-> node1, node2 |-> node2,
                                               old_edges |-> InEdges(edges, node1)
                                                             \cup OutEdges(edges, node1),
                                               new_edges |->
                                                 DOMAIN redirect_edges(edges, node1, node2)]
                             /\ pc' = pc
    /\ j' = j + 1
    /\ UNCHANGED <<df, i, k, nodes_without_year, nodes_with_year, last_ref, cvars, xvars>>

\* merge_cases_with_matching_years(G) as one call: the loop of lines 355-375
\* from its x-th year-unknown node on; ok is FALSE once data['citedAt'] fails
RECURSIVE merge_loop(_, _, _, _)
merge_loop(g, without, withy, x) ==
    IF x > Len(without) \/ ~ g.ok THEN g
    ELSE LET node1 == without[x]
         IN  IF ~ citation_years_ok(g.edges, node1)
             THEN [g EXCEPT !.ok = FALSE]
             ELSE LET cy  == citation_year_of(g.edges, node1)
                      pos == MatchPositions(withy, node1, cy)
                  IN  IF pos = {}
                      THEN merge_loop(g, without, withy, x + 1)
                      ELSE LET merged == merge_node(g.nodes, g.attrs, g.edges,
                                                    node1, withy[SetMin(pos)])
                           IN  merge_loop([nodes |-> merged.nodes,
                                           attrs |-> merged.attrs,
                                           edges |-> merged.edges,
                                           num_of_matches |-> g.num_of_matches + 1,
                                           ok |-> TRUE],
                                          without, withy, x + 1)

merge_cases_with_matching_years(ns, at, es) ==
    merge_loop([nodes |-> ns, attrs |-> at, edges |-> es,
                num_of_matches |-> 0, ok |-> TRUE],
               SelectSeq(ns, LAMBDA n : is_year_unknown(n)),
               SelectSeq(ns, LAMBDA n : ~ is_year_unknown(n)), 1)

MergeEnd ==
    /\ pc = "merge"
    /\ j > Len(nodes_without_year)
    /\ pc' = "rm2"
    /\ UNCHANGED <<df, nodes, attrs, edges, i, k,
                   nodes_without_year, nodes_with_year, j, num_of_matches, last_merge, last_ref, cvars, xvars>>

\* dataframe_to_network lines 350-351
Checkpoint2 ==
    /\ pc = "chk2"
    /\ pc' = IF ~ duplicates_receive_citations(attrs, edges) THEN "attrs" ELSE "abort"
    /\ UNCHANGED <<df, nodes, attrs, edges, i, k,
                   nodes_without_year, nodes_with_year, j, num_of_matches, last_merge, last_ref, cvars, xvars>>

\* set_node_attributes_from_dataframe with the AppNo column: the first
\* identifier of every record receives the record's value (a later record of
\* the same first identifier overwrites); identifiers that are no node are
\* ignored by nx.set_node_attributes
RECURSIVE set_node_attributes_from_dataframe(_, _, _)
set_node_attributes_from_dataframe(at, rows, x) ==
    IF x > Len(rows) THEN at
    ELSE LET n == Source(rows[x])
         IN  set_node_attributes_from_dataframe(
                IF n \in DOMAIN at
                THEN [at EXCEPT ![n] = [AppNo |-> rows[x].ids] @@ at[n]]
                ELSE at,
                rows, x + 1)

\* lines 360-378: attributes are set and self.G is returned
Finish ==
    /\ pc = "attrs"
    /\ attrs' = set_node_attributes_from_dataframe(attrs, df, 1)
    /\ pc' = "done"
    /\ UNCHANGED <<df, nodes, edges, i, k,
                   nodes_without_year, nodes_with_year, j, num_of_matches, last_merge, last_ref, cvars, xvars>>

\* ------------------------------------------------- the node-link JSON document
\* json_graph.node_link_data(graph): one mapping per node, the node's
\* attributes with the key "id" set to the identifier, and one mapping per
\* edge, the edge's attributes with the keys "source" and "target" set
node_link_data(ns, at, es) ==
    [directed   |-> TRUE,
     multigraph |-> FALSE,
     nodes      |-> [x \in 1..Len(ns) |-> ("id" :> ns[x]) @@ at[ns[x]]],
     links      |-> {("source" :> e[1] @@ "target" :> e[2]) @@ es[e] : e \in DOMAIN es}]

\* the mapping d without the keys of K
WithoutKeys(d, K) == [x \in DOMAIN d \ K |-> d[x]]

\* a plausible slip: the edge attributes are not read back
node_link_graph_bare_edges(data) ==
    [nodes |-> [x \in 1..Len(data.nodes) |-> data.nodes[x]["id"]],
     attrs |-> [n \in {data.nodes[x]["id"] : x \in 1..Len(data.nodes)} |->
                  LET d == CHOOSE d \in SeqToSet(data.nodes) : d["id"] = n
                  IN  WithoutKeys(d, {"id"})],
     edges |-> [e \in {<<d["source"], d["target"]>> : d \in data.links} |-> EmptyFn]]

\* json_graph.node_link_graph(data) for a directed simple graph: the nodes in
\* document order with their attributes, then the edges with theirs
node_link_graph(data) ==
    [nodes |-> [x \in 1..Len(data.nodes) |-> data.nodes[x]["id"]],
     attrs |-> [n \in {data.nodes[x]["id"] : x \in 1..Len(data.nodes)} |->
                  LET d == CHOOSE d \in SeqToSet(data.nodes) : d["id"] = n
                  IN  WithoutKeys(d, {"id"})],
     edges |-> [e \in {<<d["source"], d["target"]>> : d \in data.links} |->
                  LET d == CHOOSE d \in data.links :
                              d["source"] = e[1] /\ d["target"] = e[2]
                  IN  WithoutKeys(d, {"source", "target"})]]

\* save_graph_to_json(G): json.dump of the node-link document; every
\* identifier, key and attribute value of the graph is a string, which JSON
\* writes and reads back unchanged
SaveGraph ==
    /\ pc = "done"
    /\ file' = node_link_data(nodes, attrs, edges)
    /\ pc' = "saved"
    /\ UNCHANGED <<df, nodes, attrs, edges, i, k, nodes_without_year, nodes_with_year,
                   j, num_of_matches, last_merge, last_ref, cvars, loaded, fcall, fret>>

\* load_graph_from_json: json.load, then node_link_graph
LoadGraph ==
    /\ pc = "saved"
    /\ loaded' = node_link_graph(file)
    /\ pc' = "loaded"
    /\ UNCHANGED <<df, nodes, attrs, edges, i, k, nodes_without_year, nodes_with_year,
                   j, num_of_matches, last_merge, last_ref, cvars, file, fcall, fret>>

BuildNext ==
    \/ AddNodesRow
    \/ EndNodes
    \/ AddCitation
    \/ NextRecord
    \/ EndCitations
    \/ RemoveDictations
    \/ Checkpoint1
    \/ MergeStart
    \/ MergeStep
    \/ MergeEnd
    \/ Checkpoint2
    \/ Finish
    \/ SaveGraph
    \/ LoadGraph

SpecBuild == BuildInit /\ [][BuildNext]_vars

Returned == pc = "done"

\* ====================================================================
\*  Combiner: NetworkCombiner
\* ====================================================================
\* A source graph is [attrs, edges] over identifiers of the Builder's form.
\* A node of the combined graph is [base, sfx]: the identifier and "", "_JUD"
\* or "_DEC" (an identifier ends in its year, so it never ends in a suffix).
MaxCEdges == 1

CombinerIds == {NodeId("100/01", "2015"), NodeId("200/02", "2015"), NodeId("200/02", "None")}

Verbatim(n)    == [base |-> n, sfx |-> ""]
Suffixed(n, x) == [base |-> n, sfx |-> x]

JudgmentMeta == [label |-> "Case", DocType |-> "JUDGMENT"]
DecisionMeta == [label |-> "Case", DocType |-> "DECISION"]

\* the edge attributes the Builder gives an edge leaving n
EdgeDataOf(at, n) ==
    IF at[n].label = "Duplicate" THEN [label |-> "DUPLICATE_TO_CASE"]
    ELSE [label |-> "CASE_TO_CASE", citedAt |-> n.yr]

SourceGraphs(meta) ==
    UNION { { [attrs |-> at, edges |-> [e \in E |-> EdgeDataOf(at, e[1])]] :
                E \in {F \in SUBSET {p \in (DOMAIN at) \X (DOMAIN at) : p[1] # p[2]} :
                          Cardinality(F) <= MaxCEdges} } :
            at \in UNION { [S -> {CaseAttrs, DupAttrs, meta}] : S \in SUBSET CombinerIds } }

EmptyGraph == [attrs |-> EmptyFn, edges |-> EmptyFn]

ZeroTally == [decision_to_judgment |-> 0, judgment_to_decision |-> 0, removed |-> 0,
              judgment_and_decision |-> 0, judgments_no_change |-> 0,
              decisions_no_change |-> 0]

BuilderIdle ==
    /\ pc = "idle"
    /\ df = <<>>
    /\ nodes = <<>>
    /\ attrs = EmptyFn
    /\ edges = EmptyFn
    /\ i = 1
    /\ k = 0
    /\ nodes_without_year = <<>>
    /\ nodes_with_year = <<>>
    /\ j = 1
    /\ num_of_matches = 0
    /\ last_merge = EmptyFn
    /\ last_ref = EmptyFn

\* the two graphs are loaded; the run enters do_concatenation, or the node
\* merge is called on the loaded graphs directly
CombineInit ==
    /\ BuilderIdle
    /\ NothingSaved
    /\ NoUtilityCall
    /\ cpc \in {"do_concatenation", "merge_nodes"}
    /\ graph_judgments \in SourceGraphs(JudgmentMeta)
    /\ graph_decisions \in SourceGraphs(DecisionMeta)
    /\ graph = EmptyGraph
    /\ tally = ZeroTally
    /\ as_loaded = [judgments |-> graph_judgments, decisions |-> graph_decisions,
                    entry |-> cpc]

\* ------------------------------------------------------ remove_duplicate_nodes
Orders(S) ==
    {q \in [1..Cardinality(S) -> S] : \A x, y \in 1..Cardinality(S) : x # y => q[x] # q[y]}

\* the loop of lines 210-221 over the nodes in order ord: the edge mapping it
\* leaves, the nodes to remove, and whether both assertions held throughout
RECURSIVE remove_duplicate_loop(_, _, _, _)
remove_duplicate_loop(at, acc, ord, x) ==
    IF x > Len(ord) \/ ~ acc.ok THEN acc
    ELSE LET node == ord[x]
         IN  IF at[node].label # "Duplicate"
             THEN remove_duplicate_loop(at, acc, ord, x + 1)
             ELSE IF Cardinality(OutEdges(acc.edges, node)) # 1
                     \/ InEdges(acc.edges, node) # {}
                  THEN [acc EXCEPT !.ok = FALSE]
                  ELSE remove_duplicate_loop(
                          at,
                          [ok |-> TRUE,
                           edges |-> Restrict(acc.edges,
                                              DOMAIN acc.edges \ OutEdges(acc.edges, node)),
                           nodes_to_remove |-> acc.nodes_to_remove \cup {node}],
                          ord, x + 1)

\* remove_duplicate_nodes(G) for a node order: [ok, graph]
remove_duplicate_nodes(G, ord) ==
    LET r == remove_duplicate_loop(G.attrs,
                                   [ok |-> TRUE, edges |-> G.edges, nodes_to_remove |-> {}],
                                   ord, 1)
    IN  IF r.ok
        THEN [ok |-> TRUE,
              graph |-> [attrs |-> Restrict(G.attrs, DOMAIN G.attrs \ r.nodes_to_remove),
                         edges |-> Restrict(r.edges,
                                     {e \in DOMAIN r.edges :
                                         e[1] \notin r.nodes_to_remove
                                         /\ e[2] \notin r.nodes_to_remove})]]
        ELSE [ok |-> FALSE, graph |-> [attrs |-> G.attrs, edges |-> r.edges]]

\* do_concatenation line 256
RemoveDuplicatesJudgments ==
    /\ cpc = "do_concatenation"
    /\ \E ord \in Orders(DOMAIN graph_judgments.attrs) :
         LET r == remove_duplicate_nodes(graph_judgments, ord)
         IN  /\ graph_judgments' = r.graph
             /\ cpc' = IF r.ok THEN "remove_decisions" ELSE "abort_duplicate"
    /\ UNCHANGED <<graph_decisions, graph, tally, as_loaded, bvars, xvars>>

\* do_concatenation line 257
RemoveDuplicatesDecisions ==
    /\ cpc = "remove_decisions"
    /\ \E ord \in Orders(DOMAIN graph_decisions.attrs) :
         LET r == remove_duplicate_nodes(graph_decisions, ord)
         IN  /\ graph_decisions' = r.graph
             /\ cpc' = IF r.ok THEN "merge_nodes" ELSE "abort_duplicate"
    /\ UNCHANGED <<graph_judgments, graph, tally, as_loaded, bvars, xvars>>

\* ------------------------------------------- merge_judgment_and_decision_nodes
HasMeta(data) == Cardinality(DOMAIN data) > 1     \* len(data) > 1

Bump(t, c) == [t EXCEPT ![c] = @ + 1]

\* a plausible slip: the two metadata branches of lines 73-79 exchanged
merge_outcome_swapped(data_judgment, data_decision) ==
    IF ~ HasMeta(data_judgment) /\ ~ HasMeta(data_decision)
    THEN IF data_judgment.label = "Duplicate" /\ data_decision.label # "Duplicate"
         THEN [keep |-> "J", count |-> "decision_to_judgment"]
         ELSE IF data_judgment.label # "Duplicate" /\ data_decision.label = "Duplicate"
         THEN [keep |-> "D", count |-> "judgment_to_decision"]
         ELSE IF data_judgment.label # "Duplicate" /\ data_decision.label # "Duplicate"
         THEN [keep |-> "J", count |-> "removed"]
         ELSE [keep |-> "both", count |-> "judgment_and_decision"]
    ELSE IF ~ HasMeta(data_judgment) /\ HasMeta(data_decision)
    THEN [keep |-> "J", count |-> "judgment_to_decision"]
    ELSE IF HasMeta(data_judgment) /\ ~ HasMeta(data_decision)
    THEN [keep |-> "D", count |-> "decision_to_judgment"]
    ELSE [keep |-> "both", count |-> "judgment_and_decision"]

\* lines 53-86, for an identifier of both graphs: whose data is added (under
\* the shared identifier, or both under suffixed ones) and which counter grows
merge_outcome(data_judgment, data_decision) ==
    IF ~ HasMeta(data_judgment) /\ ~ HasMeta(data_decision)
    THEN IF data_judgment.label = "Duplicate" /\ data_decision.label # "Duplicate"
         THEN [keep |-> "J", count |-> "decision_to_judgment"]
         ELSE IF data_judgment.label # "Duplicate" /\ data_decision.label = "Duplicate"
         THEN [keep |-> "D", count |-> "judgment_to_decision"]
         ELSE IF data_judgment.label # "Duplicate" /\ data_decision.label # "Duplicate"
         THEN [keep |-> "J", count |-> "removed"]
         ELSE [keep |-> "both", count |-> "judgment_and_decision"]
    ELSE IF ~ HasMeta(data_judgment) /\ HasMeta(data_decision)
    THEN [keep |-> "D", count |-> "judgment_to_decision"]
    ELSE IF HasMeta(data_judgment) /\ ~ HasMeta(data_decision)
    THEN [keep |-> "J", count |-> "decision_to_judgment"]
    ELSE [keep |-> "both", count |-> "judgment_and_decision"]

\* one iteration of the loop of line 49
merge_judgment_node(acc, n, J, D) ==
    IF n \in DOMAIN D.attrs
    THEN LET o == merge_outcome(J.attrs[n], D.attrs[n])
         IN  [attrs |->
                 IF o.keep = "J" THEN AddNodeAttrs(acc.attrs, Verbatim(n), J.attrs[n])
                 ELSE IF o.keep = "D" THEN AddNodeAttrs(acc.attrs, Verbatim(n), D.attrs[n])
                 ELSE AddNodeAttrs(
                        AddNodeAttrs(acc.attrs, Suffixed(n, "_JUD"), J.attrs[n]),
                        Suffixed(n, "_DEC"), D.attrs[n]),
              tally |-> Bump(acc.tally, o.count)]
    ELSE [attrs |-> AddNodeAttrs(acc.attrs, Verbatim(n), J.attrs[n]),
          tally |-> Bump(acc.tally, "judgments_no_change")]

\* a plausible slip: the loop of line 93 adds nothing
merge_decision_node_dropped(acc, n, J, D) == acc

\* one iteration of the loop of line 93
merge_decision_node(acc, n, J, D) ==
    IF n \notin DOMAIN J.attrs
    THEN [attrs |-> AddNodeAttrs(acc.attrs, Verbatim(n), D.attrs[n]),
          tally |-> Bump(acc.tally, "decisions_no_change")]
    ELSE acc

RECURSIVE merge_judgments_loop(_, _, _, _)
merge_judgments_loop(acc, todo, J, D) ==
    IF todo = {} THEN acc
    ELSE LET n == CHOOSE x \in todo : TRUE
         IN  merge_judgments_loop(merge_judgment_node(acc, n, J, D), todo \ {n}, J, D)

RECURSIVE merge_decisions_loop(_, _, _, _)
merge_decisions_loop(acc, todo, J, D) ==
    IF todo = {} THEN acc
    ELSE LET n == CHOOSE x \in todo : TRUE
         IN  merge_decisions_loop(merge_decision_node(acc, n, J, D), todo \ {n}, J, D)

\* a plausible slip: a split counted as one node
expected_node_count_single(t) ==
    t.judgments_no_change + t.decisions_no_change + t.decision_to_judgment
        + t.judgment_to_decision + t.removed + t.judgment_and_decision

\* the right-hand side of the assertion of lines 98-100
expected_node_count(t) ==
    t.judgments_no_change + t.decisions_no_change + t.decision_to_judgment
        + t.judgment_to_decision + t.removed + 2 * t.judgment_and_decision

MergeNodes ==
    /\ cpc = "merge_nodes"
    /\ LET a == merge_judgments_loop([attrs |-> EmptyFn, tally |-> ZeroTally],
                                     DOMAIN graph_judgments.attrs,
                                     graph_judgments, graph_decisions)
           b == merge_decisions_loop(a, DOMAIN graph_decisions.attrs,
                                     graph_judgments, graph_decisions)
       IN  /\ graph' = [attrs |-> b.attrs, edges |-> EmptyFn]
           /\ tally' = b.tally
           /\ cpc' = IF Cardinality(DOMAIN b.attrs) = expected_node_count(b.tally)
                     THEN "add_edges" ELSE "abort_count"
    /\ UNCHANGED <<graph_judgments, graph_decisions, as_loaded, bvars, xvars>>

\* --------------------------------------------- add_judgment_and_decision_edges
\* target if target in graph.nodes() else f"{target}<sfx>"
target_node(gnodes, target, sfx) ==
    IF Verbatim(target) \in gnodes THEN Verbatim(target) ELSE Suffixed(target, sfx)

\* the edges one inner loop adds to node from G's out-edges of base
out_images(gnodes, G, node, base, sfx) ==
    [p \in {<<node, target_node(gnodes, e[2], sfx)>> : e \in OutEdges(G.edges, base)} |->
        G.edges[<<base, p[2].base>>]]

\* a plausible slip: the _DEC branch left reading the judgments graph
edge_sources_dec_reads_judgments(node, J, D) ==
    IF node.sfx = "_JUD" THEN {"_JUD"}
    ELSE IF node.sfx = "_DEC" THEN {"_JUD"}
    ELSE (IF node.base \in DOMAIN J.attrs THEN {"_JUD"} ELSE {})
            \cup (IF node.base \in DOMAIN D.attrs THEN {"_DEC"} ELSE {})

\* a plausible slip: a node of both graphs re-attaches its judgment edges only
edge_sources_judgments_only(node, J, D) ==
    IF node.sfx = "_JUD" THEN {"_JUD"}
    ELSE IF node.sfx = "_DEC" THEN {"_DEC"}
    ELSE IF node.base \in DOMAIN J.attrs THEN {"_JUD"}
    ELSE IF node.base \in DOMAIN D.attrs THEN {"_DEC"} ELSE {}

\* the branches of lines 141-177: which source graph's out-edges a node of the
\* combined graph re-attaches ("_JUD": judgments, "_DEC": decisions)
edge_sources(node, J, D) ==
    IF node.sfx = "_JUD" THEN {"_JUD"}
    ELSE IF node.sfx = "_DEC" THEN {"_DEC"}
    ELSE (IF node.base \in DOMAIN J.attrs THEN {"_JUD"} ELSE {})
            \cup (IF node.base \in DOMAIN D.attrs THEN {"_DEC"} ELSE {})

node_edges(gnodes, node, J, D, sfx) ==
    IF sfx \in edge_sources(node, J, D)
    THEN out_images(gnodes, IF sfx = "_JUD" THEN J ELSE D, node, node.base, sfx)
    ELSE EmptyFn

\* every assertion "target_node in graph.nodes()" of the loops
add_edges_ok(gnodes, J, D) ==
    \A node \in gnodes, sfx \in {"_JUD", "_DEC"} :
        \A e \in DOMAIN node_edges(gnodes, node, J, D, sfx) : e[2] \in gnodes

\* the edges of the combined graph after the loop of line 140: the judgment
\* edges of a node are added first, its decision edges after them
add_judgment_and_decision_edges(gnodes, J, D) ==
    LET jud == [node \in gnodes |-> node_edges(gnodes, node, J, D, "_JUD")]
        dec == [node \in gnodes |-> node_edges(gnodes, node, J, D, "_DEC")]
    IN  [e \in UNION {DOMAIN jud[n] \cup DOMAIN dec[n] : n \in gnodes} |->
            IF e \in DOMAIN dec[e[1]]
            THEN IF e \in DOMAIN jud[e[1]] THEN dec[e[1]][e] @@ jud[e[1]][e]
                 ELSE dec[e[1]][e]
            ELSE jud[e[1]][e]]

\* add_judgment_and_decision_edges; a failed assertion leaves the run aborted
AddEdges ==
    /\ cpc = "add_edges"
    /\ LET gnodes == DOMAIN graph.attrs
       IN  IF add_edges_ok(gnodes, graph_judgments, graph_decisions)
           THEN /\ graph' = [graph EXCEPT !.edges =
                                add_judgment_and_decision_edges(
                                    gnodes, graph_judgments, graph_decisions)]
                /\ cpc' = "combined"
           ELSE /\ graph' = graph
                /\ cpc' = "abort_edges"
    /\ UNCHANGED <<graph_judgments, graph_decisions, tally, as_loaded, bvars, xvars>>

CombineNext ==
    \/ RemoveDuplicatesJudgments
    \/ RemoveDuplicatesDecisions
    \/ MergeNodes
    \/ AddEdges

SpecCombine == CombineInit /\ [][CombineNext]_vars

\* ====================================================================
\*  Utilities: matching_nodes_names and find_year_in_text
\* ====================================================================
\* A text is a sequence of characters.  The texts considered are made of
\* units: an application number, a blank, and four-digit tokens.
MaxUnits == 6

DigitVal(c) == CASE c = "0" -> 0 [] c = "1" -> 1 [] c = "2" -> 2 [] c = "3" -> 3
                 [] c = "4" -> 4 [] c = "5" -> 5 [] c = "6" -> 6 [] c = "7" -> 7
                 [] c = "8" -> 8 [] c = "9" -> 9

TextUnits == {"100/01", " ", "1950"} \cup Years

RECURSIVE Flatten(_)
Flatten(us) == IF us = <<>> THEN <<>> ELSE Chars(Head(us)) \o Flatten(Tail(us))

Texts == {Flatten(us) : us \in SeqsUpTo(TextUnits, MaxUnits)}

\* s.find(sub): the first position of sub in s, or -1
Occurs(s, sub, p) ==
    /\ p + Len(sub) <= Len(s)
    /\ \A x \in 0..(Len(sub) - 1) : At(s, p + x) = At(sub, x)
Find(s, sub) ==
    IF \E p \in 0..Len(s) : Occurs(s, sub, p)
    THEN CHOOSE p \in 0..Len(s) :
            Occurs(s, sub, p) /\ \A q \in 0..(p - 1) : ~ Occurs(s, sub, q)
    ELSE -1

\* s[a:b] of Python for b >= 0: a negative a counts from the end
PySlice(s, a, b) ==
    LET start == IF a < 0 THEN (IF Len(s) + a < 0 THEN 0 ELSE Len(s) + a)
                 ELSE (IF a > Len(s) THEN Len(s) ELSE a)
        stop  == IF b > Len(s) THEN Len(s) ELSE b
    IN  IF start >= stop THEN <<>> ELSE SubSeq(s, start + 1, stop)

\* int(m) of four digits
IntOfToken(m) ==
    1000 * DigitVal(m[1]) + 100 * DigitVal(m[2]) + 10 * DigitVal(m[3]) + DigitVal(m[4])

\* re.findall(r"\D(\d\d\d\d)\D", w): the scan resumes after the whole of
\* a match, closing non-digit included
RECURSIVE FindAll(_, _)
FindAll(w, p) ==
    IF p + 6 > Len(w) THEN <<>>
    ELSE IF /\ At(w, p) \notin Digits
            /\ \A x \in 1..4 : At(w, p + x) \in Digits
            /\ At(w, p + 5) \notin Digits
         THEN <<SubSeq(w, p + 2, p + 5)>> \o FindAll(w, p + 6)
         ELSE FindAll(w, p + 1)

\* find_year_in_text(s, appno, citation_year, window_size)
find_year_in_text(s, appno, citation_year, window_size) ==
    LET l           == Find(s, Chars(appno))
        matches     == FindAll(PySlice(s, l, l + window_size), 0)
        val_matches == SelectSeq(matches,
                           LAMBDA m : /\ 1950 < IntOfToken(m)
                                      /\ IntOfToken(m) <= 2022
                                      /\ IntOfToken(m) <= IntOf(citation_year))
    IN  IF val_matches # <<>> THEN val_matches[1] ELSE NoneChars

\* ----------------------------------------------------- calls of the utilities
NodeNames     == {NodeId(a, y) : a \in Apps, y \in Years \cup {NoneStr}}
CitationYears == {2014, 2015, 2016, DefaultCitationYear}
WindowSizes   == {11, 100}

MatchCalls ==
    [fn : {"matching_nodes_names"}, node1 : NodeNames, node2 : NodeNames,
     citation_year : CitationYears]
YearCalls ==
    [fn : {"find_year_in_text"}, s : Texts, appno : Apps,
     citation_year : Years, window_size : WindowSizes]

Pending   == [done |-> FALSE]
Result(v) == [done |-> TRUE, value |-> v]

\* a utility is called with arguments of the forms the Builder passes
UtilInit ==
    /\ BuilderIdle
    /\ CombinerIdle
    /\ NothingSaved
    /\ fcall \in MatchCalls \cup YearCalls
    /\ fret = Pending

MatchingNodesNames ==
    /\ fcall.fn = "matching_nodes_names"
    /\ fret = Pending
    /\ fret' = Result(matching_nodes_names(fcall.node1, fcall.node2, fcall.citation_year))
    /\ UNCHANGED <<bvars, cvars, file, loaded, fcall>>

FindYearInText ==
    /\ fcall.fn = "find_year_in_text"
    /\ fret = Pending
    /\ fret' = Result(find_year_in_text(fcall.s, fcall.appno, fcall.citation_year,
                                        fcall.window_size))
    /\ UNCHANGED <<bvars, cvars, file, loaded, fcall>>

UtilNext ==
    \/ MatchingNodesNames
    \/ FindYearInText

SpecUtils == UtilInit /\ [][UtilNext]_vars

\* ====================================================================
\*  Properties of the Builder and the Cleaner
\* ====================================================================
EdgeSet == DOMAIN edges
NodeSet == SeqToSet(nodes)

\* C1: the graph returned by dataframe_to_network contains no directed cycle.
C1_ReturnedAcyclic == Returned => IsDAG(edges)

\* C2: in the returned graph every Duplicate node has out-degree exactly 1 and
\* in-degree 0, and its single out-edge targets a node labelled Case.
C2_DuplicateShape ==
    Returned =>
        \A n \in NodeSet :
            Label(attrs, n) = "Duplicate" =>
                /\ Cardinality(OutEdges(edges, n)) = 1
                /\ InEdges(edges, n) = {}
                /\ \A e \in OutEdges(edges, n) : Label(attrs, e[2]) = "Case"

\* a returned graph with a Duplicate node whose incoming citation was
\* redirected to its Case node by the second duplicate-citation removal
C2_Witness ==
    /\ Returned
    /\ num_of_matches > 0
    /\ \E n \in NodeSet :
         /\ Label(attrs, n) = "Duplicate"
         /\ \E e \in OutEdges(edges, n) :
              \E c \in InEdges(edges, e[2]) :
                 /\ edges[c].label = "CASE_TO_CASE"
                 /\ "citedAt" \notin DOMAIN edges[c]

\* C3: in the returned graph every CASE_TO_CASE edge (u,v) has u # v and the
\* graph holds no edge (v,u).
C3_NoSelfCitation ==
    Returned =>
        \A e \in EdgeSet :
            edges[e].label = "CASE_TO_CASE" =>
                e[1] # e[2] /\ <<e[2], e[1]>> \notin EdgeSet

\* C9: after one pass of merge_cases_with_matching_years the node count is
\* the count before the pass minus the merges performed, every removed node
\* has an identifier ending in None and no year-known node is removed.
NodesBeforePass == SeqToSet(nodes_without_year) \cup SeqToSet(nodes_with_year)

C9_MergeConservation ==
    pc = "rm2" =>
        /\ Len(nodes) = Len(nodes_without_year) + Len(nodes_with_year) - num_of_matches
        /\ \A n \in NodesBeforePass \ NodeSet : YearSuffix(n) = NoneStr
        /\ \A n \in NodesBeforePass : YearSuffix(n) # NoneStr => n \in NodeSet

\* a finished pass that merged one year-unknown node and kept another
C9_Witness ==
    /\ pc = "rm2"
    /\ num_of_matches >= 1
    /\ \E n \in NodeSet : YearSuffix(n) = NoneStr

\* C10: when year-unknown N is merged into survivor U, every former in-edge
\* (w,N) with w # U is an edge (w,U) afterwards, every former out-edge (N,x)
\* with x # U is an edge (U,x) afterwards, no edge (U,U) is created, and no
\* pair of nodes gains a second edge (the edge count does not grow).
C10_EdgesRedirected ==
    [][ (pc = "merge" /\ num_of_matches' = num_of_matches + 1) =>
          LET N == last_merge'.node1
              U == last_merge'.node2
          IN  /\ N = nodes_without_year[j]
              /\ \A e \in InEdges(edges, N) :
                    e[1] # U => <<e[1], U>> \in DOMAIN edges'
              /\ \A e \in OutEdges(edges, N) :
                    e[2] # U => <<U, e[2]>> \in DOMAIN edges'
              /\ <<U, U>> \in DOMAIN edges' => <<U, U>> \in DOMAIN edges
              /\ \A e \in DOMAIN edges' : e[1] # N /\ e[2] # N
              /\ Cardinality(DOMAIN edges') <= Cardinality(DOMAIN edges)
      ]_vars

\* a merge in which the survivor itself cited the merged node (the edge that
\* would have become a self-loop) and another citation was redirected
C10_Witness ==
    /\ pc = "merge"
    /\ last_merge # EmptyFn
    /\ LET N == last_merge.node1
           U == last_merge.node2
       IN  /\ N \notin NodeSet
           /\ <<U, N>> \in last_merge.old_edges
           /\ <<U, U>> \notin EdgeSet
           /\ \E e \in last_merge.old_edges :
                 e[1] # U /\ e[2] = N /\ <<e[1], U>> \in EdgeSet

\* ====================================================================
\*  Properties of the Combiner
\* ====================================================================
GraphA == graph_judgments
GraphB == graph_decisions
GNodes == DOMAIN graph.attrs
Shared == DOMAIN GraphA.attrs \cap DOMAIN GraphB.attrs
NodesMerged == cpc \in {"add_edges", "combined"}

\* C4: the node count of the merged graph equals no_change_A + no_change_B +
\* A_to_B + B_to_A + removed + 2*split, and the count assertion never fails.
C4_CountIdentity ==
    /\ cpc # "abort_count"
    /\ NodesMerged =>
         Cardinality(GNodes) =
             tally.judgments_no_change + tally.decisions_no_change
               + tally.decision_to_judgment + tally.judgment_to_decision
               + tally.removed + 2 * tally.judgment_and_decision

\* a merge in which a split, a dropped instance and an unshared node occur
C4_Witness ==
    /\ NodesMerged
    /\ tally.judgment_and_decision >= 1
    /\ tally.removed + tally.decision_to_judgment + tally.judgment_to_decision >= 1
    /\ tally.judgments_no_change + tally.decisions_no_change >= 1

\* C5: for a shared identifier without metadata on either side, a Duplicate
\* in A and a non-Duplicate in B leave B's data under the shared identifier,
\* and a non-Duplicate in A and a Duplicate in B leave A's data.
C5_NonDuplicateKept ==
    NodesMerged =>
        \A n \in Shared :
            (~ HasMeta(GraphA.attrs[n]) /\ ~ HasMeta(GraphB.attrs[n])) =>
                /\ (GraphA.attrs[n].label = "Duplicate" /\ GraphB.attrs[n].label # "Duplicate")
                       => (Verbatim(n) \in GNodes /\ graph.attrs[Verbatim(n)] = GraphB.attrs[n])
                /\ (GraphA.attrs[n].label # "Duplicate" /\ GraphB.attrs[n].label = "Duplicate")
                       => (Verbatim(n) \in GNodes /\ graph.attrs[Verbatim(n)] = GraphA.attrs[n])

ImageOf(t, sfx) == IF Verbatim(t) \in GNodes THEN Verbatim(t) ELSE Suffixed(t, sfx)
OutOf(g) == {e[2] : e \in OutEdges(graph.edges, g)}
BothMeta(n) == n \in Shared /\ HasMeta(GraphA.attrs[n]) /\ HasMeta(GraphB.attrs[n])

\* C7: an identifier X that bears metadata in both graphs yields X_JUD with
\* A's attributes and X_DEC with B's, and no node X; the out-edges of X_JUD
\* are exactly the images of X's out-edges in A, those of X_DEC the images of
\* X's out-edges in B.
C7_SplitKeepsOwnEdges ==
    /\ NodesMerged =>
         \A n \in Shared : BothMeta(n) =>
            /\ {g \in GNodes : g.base = n} = {Suffixed(n, "_JUD"), Suffixed(n, "_DEC")}
            /\ graph.attrs[Suffixed(n, "_JUD")] = GraphA.attrs[n]
            /\ graph.attrs[Suffixed(n, "_DEC")] = GraphB.attrs[n]
    /\ cpc = "combined" =>
         \A n \in Shared : BothMeta(n) =>
            /\ OutOf(Suffixed(n, "_JUD")) =
                  {ImageOf(e[2], "_JUD") : e \in OutEdges(GraphA.edges, n)}
            /\ OutOf(Suffixed(n, "_DEC")) =
                  {ImageOf(e[2], "_DEC") : e \in OutEdges(GraphB.edges, n)}

\* a split identifier whose judgment cites a split identifier and whose
\* decision cites an identifier kept verbatim
C7_Witness ==
    /\ cpc = "combined"
    /\ \E n \in Shared :
         /\ BothMeta(n)
         /\ \E t \in OutOf(Suffixed(n, "_JUD")) : t.sfx = "_JUD"
         /\ \E t \in OutOf(Suffixed(n, "_DEC")) : t.sfx = ""

\* the node of the combined graph that stands for node s of a source graph
RepOf(s, sfx) == IF Verbatim(s) \in GNodes THEN Verbatim(s) ELSE Suffixed(s, sfx)
ImagesOf(G, sfx) == {<<RepOf(e[1], sfx), ImageOf(e[2], sfx)>> : e \in DOMAIN G.edges}

\* C8: every edge of A and every edge of B has its image in the combined
\* graph, and every edge of the combined graph is such an image.
C8_EdgesReattached ==
    cpc = "combined" =>
        DOMAIN graph.edges = ImagesOf(GraphA, "_JUD") \cup ImagesOf(GraphB, "_DEC")

\* a node kept under the shared identifier carries an edge from each graph
C8_Witness ==
    /\ cpc = "combined"
    /\ \E n \in Shared :
         /\ Verbatim(n) \in GNodes
         /\ OutEdges(GraphA.edges, n) # {}
         /\ OutEdges(GraphB.edges, n) # {}
         /\ Cardinality(OutOf(Verbatim(n))) = 2

\* ====================================================================
\*  Properties of the citation loop
\* ====================================================================
\* a step of add_citations_to_network that handled one reference
CitationStep ==
    /\ pc = "cites" /\ k' = k + 1 /\ pc' = "cites"
    /\ last_ref'.matched

\* a step of add_nodes_of_network that handled one record
RecordStep == pc = "nodes" /\ Len(df') = Len(df) + 1

\* the edges at node n, with their attributes
EdgesAt(es, n) == Restrict(es, InEdges(es, n) \cup OutEdges(es, n))

\* C16: for a record id1;id2;...;idk add_nodes_of_network makes id1 a node
\* labelled Case; every further idj that is not yet a node becomes a node
\* labelled Duplicate with exactly one edge, idj -> id1, labelled
\* DUPLICATE_TO_CASE; a further idj that already is a node keeps its label
\* and its edges.
C16_RecordNodes ==
    [][ RecordStep =>
          LET ids == concat_appno_year(df'[Len(df')])
              id1 == ids[1]
          IN  /\ HasNode(nodes', id1)
              /\ Label(attrs', id1) = "Case"
              /\ \A x \in 2..Len(ids) :
                    LET idj == ids[x]
                        new == ~ HasNode(nodes, idj) /\ \A y \in 1..(x - 1) : ids[y] # idj
                    IN  /\ new =>
                              /\ HasNode(nodes', idj)
                              /\ Label(attrs', idj) = "Duplicate"
                              /\ EdgesAt(edges', idj) =
                                    (<<idj, id1>> :> [label |-> "DUPLICATE_TO_CASE"])
                        /\ (~ new /\ idj # id1) =>
                              /\ attrs'[idj] = attrs[idj]
                              /\ EdgesAt(edges', idj) = EdgesAt(edges, idj)
      ]_vars

\* the second record names the identifiers of the first in reverse order: its
\* first identifier, a Duplicate until then, is a Case node now, and its
\* second identifier, already a node, stayed as it was
C16_Witness ==
    /\ pc = "nodes"
    /\ Len(df) = 2
    /\ df[1].yr = df[2].yr
    /\ Len(df[1].ids) = 2 /\ Len(df[2].ids) = 2
    /\ df[1].ids[1] # df[1].ids[2]
    /\ df[2].ids[1] = df[1].ids[2] /\ df[2].ids[2] = df[1].ids[1]
    /\ \A n \in NodeSet : Label(attrs, n) = "Case"
    /\ EdgeSet = {<<Source(df[2]), Source(df[1])>>}

\* C11: every CASE_TO_CASE edge added by add_citations_to_network targets a
\* node labelled Case; a reference that names a Duplicate node is resolved to
\* that Duplicate's single out-neighbour before the edge is added, so no
\* citation edge of the Builder points at a Duplicate node.
C11_CitationTargetsCase ==
    [][ CitationStep =>
          LET r == last_ref'
          IN  /\ Label(attrs', r.ref_year) = "Duplicate" =>
                    /\ OutEdges(edges, r.ref_year) = {<<r.ref_year, r.target>>}
                    /\ r.target # r.ref_year
              /\ Label(attrs', r.ref_year) # "Duplicate" => r.target = r.ref_year
              /\ r.added =>
                    /\ <<r.source, r.target>> \in DOMAIN edges' \ DOMAIN edges
                    /\ edges'[<<r.source, r.target>>].label = "CASE_TO_CASE"
                    /\ Label(attrs', r.target) = "Case"
              /\ \A e \in DOMAIN edges' :
                    edges'[e].label = "CASE_TO_CASE" => Label(attrs', e[2]) = "Case"
      ]_vars

\* a reference that named a Duplicate node and became a citation of its Case
C11_Witness ==
    /\ pc = "cites"
    /\ last_ref # EmptyFn
    /\ last_ref.added
    /\ Label(attrs, last_ref.ref_year) = "Duplicate"
    /\ last_ref.source # last_ref.target
    /\ <<last_ref.source, last_ref.target>> \in EdgeSet
    /\ <<last_ref.source, last_ref.ref_year>> \notin EdgeSet

\* C17: add_citations_to_network never adds an edge whose source equals its
\* resolved target: a reference that names the citing case, or one of its own
\* Duplicate identifiers, is skipped and leaves the graph unchanged.
C17_SelfCitationSkipped ==
    [][ (CitationStep /\ last_ref'.source = last_ref'.target) =>
          /\ ~ last_ref'.added
          /\ nodes' = nodes /\ attrs' = attrs /\ edges' = edges
      ]_vars

CitedByCaseOf(es, source, t) ==
    \E w \in {e[1] : e \in InEdges(es, source)} : AppPrefix(w) = AppPrefix(t)

C12_CitedAtPresent ==
    Returned =>
        \A e \in EdgeSet :
            edges[e].label = "CASE_TO_CASE" =>
                /\ "citedAt" \in DOMAIN edges[e]
                /\ edges[e].citedAt = YearSuffix(e[1])

MatchReturned == fcall # EmptyFn /\ fcall.fn = "matching_nodes_names" /\ fret.done
YearReturned  == fcall # EmptyFn /\ fcall.fn = "find_year_in_text" /\ fret.done

\* the result the claim gives for (a, b, y)
ExactlyOneUnknown(a, b) == (YearSuffix(a) = NoneStr) # (YearSuffix(b) = NoneStr)
KnownYearOf(a, b) == IF YearSuffix(a) = NoneStr THEN YearSuffix(b) ELSE YearSuffix(a)
MatchLevel(a, b, y) ==
    IF a = b THEN 2
    ELSE IF /\ AppPrefix(a) = AppPrefix(b)
            /\ ExactlyOneUnknown(a, b)
            /\ IntOf(KnownYearOf(a, b)) <= y
         THEN 1
         ELSE 0

\* C13: matching_nodes_names(a, b, y) is 2 iff a = b; 1 iff a # b, the
\* application-number prefixes are equal, exactly one of the two has year
\* None and the known year is <= y; 0 otherwise; and swapping a and b does
\* not change the result.
C13_MatchLevels ==
    MatchReturned =>
        /\ fret.value = MatchLevel(fcall.node1, fcall.node2, fcall.citation_year)
        /\ fret.value = matching_nodes_names(fcall.node2, fcall.node1, fcall.citation_year)

\* a partial match whose known year equals the citation year
C13_Witness ==
    /\ MatchReturned
    /\ fret.value = 1
    /\ YearSuffix(fcall.node2) = NoneStr
    /\ IntOf(YearSuffix(fcall.node1)) = fcall.citation_year

\* the four-digit tokens of text s that lie in the window of size w starting
\* at position l: runs of exactly four digits, by their first position
IsDigitAt(s, p) == p >= 0 /\ p < Len(s) /\ At(s, p) \in Digits
TokensInWindow(s, l, w) ==
    {p \in 0..(Len(s) - 1) :
        /\ l <= p /\ p + 4 <= l + w /\ p + 4 <= Len(s)
        /\ \A x \in 0..3 : IsDigitAt(s, p + x)
        /\ ~ IsDigitAt(s, p - 1)
        /\ ~ IsDigitAt(s, p + 4)}
TokenAt(s, p) == SubSeq(s, p + 1, p + 4)

\* the year the claim gives: the first token of the window with a value
\* between 1951 and 2022 that is <= the citing year, None when there is none
YearOfClaim(s, appno, citing_year, w) ==
    LET l     == Find(s, Chars(appno))
        valid == IF l < 0 THEN {}
                 ELSE {p \in TokensInWindow(s, l, w) :
                          /\ 1951 <= IntOfToken(TokenAt(s, p))
                          /\ IntOfToken(TokenAt(s, p)) <= 2022
                          /\ IntOfToken(TokenAt(s, p)) <= IntOf(citing_year)}
    IN  IF valid = {} THEN NoneChars ELSE TokenAt(s, SetMin(valid))

\* C14: find_year_in_text returns the first four-digit token, in text order,
\* that lies in the windowSize characters starting at the first occurrence
\* of appNo and whose value is between 1951 and 2022 and <= citingYear; it
\* returns None exactly when the window holds no such token.
C14_FirstYearInWindow ==
    YearReturned =>
        fret.value = YearOfClaim(fcall.s, fcall.appno, fcall.citation_year,
                                 fcall.window_size)

\* ------------------------------------ Properties of duplicate-citation removal
\* a completed call of remove_dictations_to_duplicates
RemovalStep ==
    /\ pc \in {"rm1", "rm2"}
    /\ pc' \in {"chk1", "chk2"}

\* C19: after remove_dictations_to_duplicates no edge targets a node labelled
\* Duplicate; every removed edge (s, D) targeted a Duplicate and the graph then
\* holds an edge from s to the Case node D points to; every edge whose target
\* is not a Duplicate is still there with the same attributes, and the nodes
\* and their attributes are untouched.
C19_NoCitationToDuplicate ==
    [][ RemovalStep =>
          /\ \A e \in DOMAIN edges' : Label(attrs', e[2]) # "Duplicate"
          /\ \A e \in DOMAIN edges \ DOMAIN edges' :
                /\ Label(attrs, e[2]) = "Duplicate"
                /\ \E c \in DOMAIN attrs :
                      /\ <<e[2], c>> \in DOMAIN edges
                      /\ Label(attrs, c) = "Case"
                      /\ <<e[1], c>> \in DOMAIN edges'
          /\ \A e \in DOMAIN edges :
                Label(attrs, e[2]) # "Duplicate" =>
                    e \in DOMAIN edges' /\ edges'[e] = edges[e]
          /\ nodes' = nodes /\ attrs' = attrs ]_vars

\* the second removal has run and put a redirected edge in the graph
C19_Witness ==
    /\ pc = "chk2"
    /\ \E e \in DOMAIN edges :
          /\ edges[e] = [label |-> "CASE_TO_CASE"]
          /\ Label(attrs, e[2]) = "Case"

\* C20: duplicate-citation removal is idempotent: wherever the program calls
\* remove_dictations_to_duplicates, a second application directly after the
\* first passes its assertions and leaves the edge set and every edge
\* attribute as the first left them (the function touches neither the node
\* set nor the node attributes).
C20_RemovalIdempotent ==
    (pc \in {"rm1", "rm2"} /\ remove_dictations_ok(attrs, edges)) =>
        LET once == remove_dictations_to_duplicates(attrs, edges)
        IN  /\ remove_dictations_ok(attrs, once)
            /\ remove_dictations_to_duplicates(attrs, once) = once

\* a call whose first application changes the graph
C20_Witness ==
    /\ pc = "rm2"
    /\ remove_dictations_ok(attrs, edges)
    /\ get_citations_to_duplicates(attrs, edges) # {}
    /\ remove_dictations_to_duplicates(attrs, edges) # edges

\* --------------------------------------------- Properties of year-based merge
\* C21: year-based merge is idempotent: applied to the graph a first pass has
\* just left, merge_cases_with_matching_years completes, performs no merge and
\* returns the same nodes, node attributes, edges and edge attributes.
C21_MergeIdempotent ==
    pc = "rm2" =>
        merge_cases_with_matching_years(nodes, attrs, edges) =
            [nodes |-> nodes, attrs |-> attrs, edges |-> edges,
             num_of_matches |-> 0, ok |-> TRUE]

\* a finished pass that merged a node and left a cited year-unknown node
\* beside a year-known node of the same application
C21_Witness ==
    /\ pc = "rm2"
    /\ num_of_matches >= 1
    /\ \E n \in NodeSet, u \in NodeSet :
          /\ YearSuffix(n) = NoneStr
          /\ YearSuffix(u) # NoneStr
          /\ AppPrefix(u) = AppPrefix(n)
          /\ InEdges(edges, n) # {}

\* the year-known nodes, by position in the scan, that N may be merged into:
\* same application number and a year not after every citing year of N
MergeCandidates(N) ==
    {p \in 1..Len(nodes_with_year) :
        /\ YearSuffix(nodes_with_year[p]) # NoneStr
        /\ AppPrefix(nodes_with_year[p]) = AppPrefix(N)
        /\ \A e \in InEdges(edges, N) :
              IntOf(YearSuffix(nodes_with_year[p])) <= IntOf(edges[e].citedAt)}

\* one year-unknown node is examined by the pass
ScanStep ==
    /\ pc = "merge"
    /\ j <= Len(nodes_without_year)
    /\ j' = j + 1

\* C22: when the pass examines year-unknown node N it merges N into the first
\* year-known node of the scan that has N's application number and a year not
\* after the earliest citedAt of N's in-edges (any year when N has no in-edge):
\* exactly that one merge is performed and N leaves the graph; when there is
\* no such node, nodes, attributes and edges are all unchanged. Every
\* year-unknown node is examined once.
C22_MergesIntoFirstMatch ==
    [][ ScanStep =>
          LET N     == nodes_without_year[j]
              cands == MergeCandidates(N)
          IN  /\ pc' = "merge"
              /\ YearSuffix(N) = NoneStr
              /\ \A x \in 1..Len(nodes_without_year) :
                    nodes_without_year[x] = N => x = j
              /\ IF cands = {}
                 THEN /\ nodes' = nodes /\ attrs' = attrs /\ edges' = edges
                      /\ num_of_matches' = num_of_matches
                 ELSE LET U == nodes_with_year[SetMin(cands)]
                      IN  /\ num_of_matches' = num_of_matches + 1
                          /\ last_merge'.node1 = N /\ last_merge'.node2 = U
                          /\ ~ HasNode(nodes', N)
                          /\ HasNode(nodes', U)
                          /\ \A e \in InEdges(edges, N) :
                                e[1] # U => <<e[1], U>> \in DOMAIN edges'
                          /\ \A e \in DOMAIN edges' \ DOMAIN edges : e[2] = U ]_vars

\* a merge of a cited node where two year-known nodes carry its application
\* number and the earlier one in the scan was taken
C22_Witness ==
    /\ pc = "merge"
    /\ last_merge # EmptyFn
    /\ \E e \in last_merge.old_edges : e[2] = last_merge.node1
    /\ \E p, q \in 1..Len(nodes_with_year) :
          /\ p < q
          /\ nodes_with_year[p] = last_merge.node2
          /\ AppPrefix(nodes_with_year[q]) = AppPrefix(last_merge.node1)
          /\ <<nodes_with_year[q], last_merge.node1>> \in last_merge.old_edges

\* attribute mappings a node can carry: a label, and the AppNo list that
\* set_node_attributes_from_dataframe attaches
LabelDicts == {EmptyFn} \cup {[label |-> l] : l \in {"Case", "Duplicate"}}
AppNoDicts == {EmptyFn} \cup {[AppNo |-> a] : a \in {<<"100/01">>, <<"200/02">>}}
AttrDicts  == {a @@ b : a \in LabelDicts, b \in AppNoDicts}

\* a step of the pass that merges a node
MergingStep ==
    /\ pc = "merge"
    /\ num_of_matches' = num_of_matches + 1

\* C23: when year-unknown N is merged into survivor U, every attribute key U
\* had keeps its value (label included), every key only N had is on U with
\* N's value, and U has no other key; concatenate_dict(dict1, dict2) has this
\* effect on every pair of attribute mappings.
C23_SurvivorAttributes ==
    [][ MergingStep =>
          LET N == last_merge'.node1
              U == last_merge'.node2
          IN  /\ DOMAIN attrs'[U] = DOMAIN attrs[U] \cup DOMAIN attrs[N]
              /\ \A key \in DOMAIN attrs[U] : attrs'[U][key] = attrs[U][key]
              /\ \A key \in DOMAIN attrs[N] \ DOMAIN attrs[U] :
                    attrs'[U][key] = attrs[N][key]
              /\ \A dict1 \in AttrDicts, dict2 \in AttrDicts :
                    LET d == concatenate_dict(dict1, dict2)
                    IN  /\ DOMAIN d = DOMAIN dict1 \cup DOMAIN dict2
                        /\ \A key \in DOMAIN dict1 : d[key] = dict1[key]
                        /\ \A key \in DOMAIN dict2 \ DOMAIN dict1 :
                              d[key] = dict2[key] ]_vars

\* a node labelled Case has been merged into a survivor labelled Duplicate
C23_Witness ==
    /\ pc = "merge"
    /\ last_merge # EmptyFn
    /\ ~ HasNode(nodes, last_merge.node1)
    /\ Label(attrs, last_merge.node2) = "Duplicate"

\* ------------------------------------------- Properties of reference handling
\* the reference string appno:year, character by character
RefString(n) ==
    Chars(AppPrefix(n)) \o <<":">>
        \o (IF YearSuffix(n) = NoneStr THEN NoneChars ELSE Chars(YearSuffix(n)))

\* the application-number pattern occurs in s: a slash with three digits or
\* more before it and two digits after it
HasApplicationNumber(s) ==
    \E p \in 4..(Len(s) - 2) :
        /\ s[p] = "/"
        /\ {s[p - 3], s[p - 2], s[p - 1], s[p + 1], s[p + 2]} \subseteq Digits

\* one reference of a record has been handled, whatever its form
ReferenceStep == pc = "cites" /\ k' = k + 1

Successors(es, S) == {e[2] : e \in {d \in DOMAIN es : d[1] \in S}}

RECURSIVE ReachableFrom(_, _)
ReachableFrom(es, S) ==
    LET T == S \cup Successors(es, S)
    IN  IF T = S THEN S ELSE ReachableFrom(es, T)

\* some node is reached from itself along one edge or more
HasCycle(es) ==
    \E e \in DOMAIN es : e[1] \in ReachableFrom(es, Successors(es, {e[1]}))

\* C25: if the graph holds a directed cycle (a self-loop included) at the
\* acyclicity checkpoint after the first duplicate-citation removal, the run
\* aborts there; an aborted run stays aborted, so year-based merge is not run
\* and no graph is returned.
C25_CycleAborts ==
    [][ /\ (pc = "chk1" /\ HasCycle(edges)) => pc' = "abort"
        /\ pc = "abort" => pc' = "abort" ]_vars

\* a run aborted before year-based merge began, with a cycle in the graph, no
\* citation into a Duplicate and every record's citations processed
C25_Witness ==
    /\ pc = "abort"
    /\ HasCycle(edges)
    /\ i > Len(df)
    /\ nodes_with_year = <<>>
    /\ ~ duplicates_receive_citations(attrs, edges)

\* ====================================================================
\*  Properties of the combined graph
\* ====================================================================
\* C26: add_judgment_and_decision_edges, run on the nodes
\* merge_judgment_and_decision_nodes produced, never fails its assertion that
\* a redirected target exists: every target of a judgments edge is a node of
\* the combined graph verbatim or with _JUD appended, every target of a
\* decisions edge verbatim or with _DEC appended.
C26_RedirectedTargetExists ==
    /\ cpc # "abort_edges"
    /\ cpc = "add_edges" =>
          /\ \A e \in DOMAIN graph_judgments.edges :
                \/ Verbatim(e[2]) \in DOMAIN graph.attrs
                \/ Suffixed(e[2], "_JUD") \in DOMAIN graph.attrs
          /\ \A e \in DOMAIN graph_decisions.edges :
                \/ Verbatim(e[2]) \in DOMAIN graph.attrs
                \/ Suffixed(e[2], "_DEC") \in DOMAIN graph.attrs

\* the edges were added and one of them was redirected to a suffixed node
\* from a source that was not split
C26_Witness ==
    /\ cpc = "combined"
    /\ \E e \in DOMAIN graph.edges :
          /\ e[1].sfx = ""
          /\ e[2].sfx # ""
          /\ Verbatim(e[2].base) \notin DOMAIN graph.attrs

\* ---------------------------------------------- Properties of the edge labels
\* C27: in every graph of the Builder phase and after it, an edge is labelled
\* DUPLICATE_TO_CASE if and only if its source node is labelled Duplicate.
C27_DuplicateEdgeLabels ==
    \A e \in EdgeSet :
        edges[e].label = "DUPLICATE_TO_CASE" <=> Label(attrs, e[1]) = "Duplicate"

\* C28: from add_citations_to_network to the end of dataframe_to_network,
\* every citation edge (u, v) between nodes labelled Case has a target whose
\* year is None or not later than the year of u; year-based merge and
\* duplicate-citation removal keep it so.
C28_CitedNotLater ==
    \A e \in EdgeSet :
        (/\ edges[e].label = "CASE_TO_CASE"
         /\ Label(attrs, e[1]) = "Case"
         /\ Label(attrs, e[2]) = "Case") =>
            \/ YearSuffix(e[2]) = NoneStr
            \/ IntOf(YearSuffix(e[2])) <= IntOf(YearSuffix(e[1]))

\* the returned graph holds a citation of an earlier case that year-based
\* merge attached to a Duplicate and the second removal moved to its Case
C28_Witness ==
    /\ Returned
    /\ \E e \in EdgeSet :
          /\ edges[e].label = "CASE_TO_CASE"
          /\ "citedAt" \notin DOMAIN edges[e]
          /\ Label(attrs, e[1]) = "Case" /\ Label(attrs, e[2]) = "Case"
          /\ YearSuffix(e[2]) # NoneStr
          /\ IntOf(YearSuffix(e[2])) < IntOf(YearSuffix(e[1]))

\* C29: if the judgments graph and the decisions graph are each acyclic, the
\* combined graph that do_concatenation returns is acyclic.
C29_CombinedAcyclic ==
    (/\ cpc = "combined"
     /\ ~ HasCycle(graph_judgments.edges)
     /\ ~ HasCycle(graph_decisions.edges)) => ~ HasCycle(graph.edges)

\* the identifiers labelled Duplicate in a source graph as it was loaded
DuplicatesOf(G) == {n \in DOMAIN G.attrs : G.attrs[n].label = "Duplicate"}

\* C30: do_concatenation aborts on a Duplicate node whose out-degree is not 1
\* or whose in-degree is not 0, or it returns a combined graph with no node
\* labelled Duplicate and no edge whose source or target was a Duplicate node
\* of an input graph; the duplicate-removal step keeps every edge between
\* non-Duplicate nodes of an input.
C30_NoTraceOfDuplicates ==
    as_loaded.entry = "do_concatenation" =>
    /\ cpc = "combined" =>
          LET dups == DuplicatesOf(as_loaded.judgments)
                         \cup DuplicatesOf(as_loaded.decisions)
          IN  /\ \A n \in DOMAIN graph.attrs : graph.attrs[n].label # "Duplicate"
              /\ \A e \in DOMAIN graph.edges :
                    e[1].base \notin dups /\ e[2].base \notin dups
    /\ cpc \in {"merge_nodes", "add_edges", "combined"} =>
          /\ \A e \in DOMAIN as_loaded.judgments.edges :
                (e[1] \notin DuplicatesOf(as_loaded.judgments)
                 /\ e[2] \notin DuplicatesOf(as_loaded.judgments)) =>
                    /\ e \in DOMAIN graph_judgments.edges
                    /\ graph_judgments.edges[e] = as_loaded.judgments.edges[e]
          /\ \A e \in DOMAIN as_loaded.decisions.edges :
                (e[1] \notin DuplicatesOf(as_loaded.decisions)
                 /\ e[2] \notin DuplicatesOf(as_loaded.decisions)) =>
                    /\ e \in DOMAIN graph_decisions.edges
                    /\ graph_decisions.edges[e] = as_loaded.decisions.edges[e]

====
